---- MODULE Spec2Model ----
(***************************************************************************)
(* Step-by-step execution sessions of workflows-mcp (src/src/index.ts):    *)
(* start_workflow, run_workflow_step, update_workflow, delete_workflow,    *)
(* together with the pure helpers that build a step instruction.           *)
(***************************************************************************)
EXTENDS FiniteSets, Integers, Sequences, TLC

(***************************************************************************)
(* Bounds of the exploration.                                              *)
(***************************************************************************)
\* number of tool calls in a run
MaxCalls == 5
\* number of steps of the definitions whose step preview is evaluated
MaxSteps == 6
\* number of run_workflow_step calls suspended at the same time
MaxPending == 2

(***************************************************************************)
(* Values.  A text is a sequence of tokens; a token is either an ordinary  *)
(* word or an occurrence of "step <n>".  JSON values carry their typeof.   *)
(***************************************************************************)
Word(s) == [isStep |-> FALSE, n |-> 0, w |-> s]
StepRef(k) == [isStep |-> TRUE, n |-> k, w |-> "step"]
\* a word as it is written, followed by a blank and the digits of k
Numbered(word, k) == [isStep |-> TRUE, n |-> k, w |-> word]

Undefined == [type |-> "undefined", text |-> <<>>]
Str(t) == [type |-> "string", text |-> t]
Num(s) == [type |-> "number", text |-> <<Word(s)>>]

\* the step_result arguments the caller may send
Results ==
  { Undefined,
    Str(<<>>),
    Str(<<Word("done")>>),
    Str(<<Word("to"), StepRef(3), Word("or"), Numbered("STEP", 1)>>),
    Str(<<Numbered("Step", 1), Word("not"), StepRef(3)>>) }

\* the step_result arguments sent along with an execution id that is not
\* registered: none, and one that names a step
UnknownResults ==
  { Undefined, Str(<<Word("to"), StepRef(3), Word("or"), Numbered("STEP", 1)>>) }

\* JS truthiness of a value: undefined and the empty string are falsy
Truthy(v) == v.type # "undefined" /\ ~(v.type = "string" /\ v.text = <<>>)

EmptyMap == [k \in {} |-> Undefined]

\* obj[key] = value on a plain object
Assign(obj, key, value) ==
  [k \in DOMAIN obj \cup {key} |-> IF k = key THEN value ELSE obj[k]]

(***************************************************************************)
(* Structured values, JSON.stringify and template resolution               *)
(* (resolveTemplateVariables, resolveTemplateInObject).                    *)
(***************************************************************************)
\* an occurrence of "{{name}}" in a text
Tok(name) == [isStep |-> FALSE, n |-> 0, w |-> name, isVar |-> TRUE]
IsVar(token) == "isVar" \in DOMAIN token

\* an array of values, and an object as its entries in insertion order
Arr(items) == [type |-> "array", text |-> <<>>, items |-> items]
Obj(entries) == [type |-> "object", text |-> <<>>, entries |-> entries]
Entry(key, value) == [key |-> key, value |-> value]

RECURSIVE Concat(_)
Concat(texts) == IF texts = <<>> THEN <<>> ELSE Head(texts) \o Concat(Tail(texts))

\* JSON.stringify(value) as a text: strings are quoted, arrays keep the
\* order of their elements, objects the order of their keys
RECURSIVE JSONstringify(_)
JSONstringify(value) ==
  IF value.type = "string"
  THEN <<Word("\"")>> \o value.text \o <<Word("\"")>>
  ELSE IF value.type = "array"
  THEN <<Word("[")>>
         \o Concat([i \in 1..Len(value.items) |->
                      JSONstringify(value.items[i]) \o <<Word(",")>>])
         \o <<Word("]")>>
  ELSE IF value.type = "object"
  THEN <<Word("{")>>
         \o Concat([i \in 1..Len(value.entries) |->
                      <<Word("\""), Word(value.entries[i].key), Word("\""), Word(":")>>
                        \o JSONstringify(value.entries[i].value) \o <<Word(",")>>])
         \o <<Word("}")>>
  ELSE value.text

\* index.ts:650-658: every {{name}} whose name is an own key of variables
\* is replaced by the value, a string as it is and any other value by
\* JSON.stringify; the inserted text is not scanned again
RECURSIVE resolveTemplateVariables(_, _)
resolveTemplateVariables(template, variables) ==
  IF template = <<>> THEN <<>>
  ELSE LET token == Head(template)
           replaced ==
             IF IsVar(token) /\ token.w \in DOMAIN variables
             THEN IF variables[token.w].type = "string"
                  THEN variables[token.w].text
                  ELSE JSONstringify(variables[token.w])
             ELSE <<token>>
       IN replaced \o resolveTemplateVariables(Tail(template), variables)

\* variant: a resolved string is passed through JSON.stringify
RECURSIVE resolveTemplateInObject_quoted(_, _)
resolveTemplateInObject_quoted(obj, variables) ==
  IF obj.type = "string"
  THEN Str(JSONstringify(Str(resolveTemplateVariables(obj.text, variables))))
  ELSE IF obj.type = "array"
  THEN Arr([i \in 1..Len(obj.items) |->
              resolveTemplateInObject_quoted(obj.items[i], variables)])
  ELSE IF obj.type = "object"
  THEN Obj([i \in 1..Len(obj.entries) |->
              Entry(obj.entries[i].key,
                    resolveTemplateInObject_quoted(obj.entries[i].value, variables))])
  ELSE obj

\* index.ts:660-673
RECURSIVE resolveTemplateInObject(_, _)
resolveTemplateInObject(obj, variables) ==
  IF obj.type = "string"
  THEN Str(resolveTemplateVariables(obj.text, variables))
  ELSE IF obj.type = "array"
  THEN Arr([i \in 1..Len(obj.items) |-> resolveTemplateInObject(obj.items[i], variables)])
  ELSE IF obj.type = "object"
  THEN Obj([i \in 1..Len(obj.entries) |->
              Entry(obj.entries[i].key,
                    resolveTemplateInObject(obj.entries[i].value, variables))])
  ELSE obj

(***************************************************************************)
(* Workflow definitions (the Workflow and Step types).  save_result_as =   *)
(* "" stands for an absent save_result_as (both are falsy in the code).    *)
(***************************************************************************)
MkStep(id, action, save, deps, gotos) ==
  [id |-> id, action |-> action, description |-> <<Word("do")>>,
   save_result_as |-> save,
   dependencies |-> deps, show_all_variables |-> FALSE, conditions |-> gotos]

Param(type, required) == [type |-> type, required |-> required, default |-> Undefined]

MkWorkflow(name, steps, inputs, strict) ==
  [name |-> name, steps |-> steps, inputs |-> inputs,
   strict_dependencies |-> strict, is_deleted |-> FALSE]

\* an optional input with a default value
ParamDefault(type, default) == [type |-> type, required |-> FALSE, default |-> default]

\* every definition declares one required input, x
DeclaredInputs == [k \in {"x"} |-> Param("number", TRUE)]

\* x as above and an optional string y with a default
InputsWithDefault ==
  [k \in {"x", "y"} |->
     IF k = "x" THEN Param("number", TRUE)
     ELSE ParamDefault("string", Str(<<Word("dflt")>>))]

\* three sequential steps, none a branch; step 3 depends on step 2
WfSeq3 ==
  MkWorkflow("seq3",
    << MkStep(1, "tool_call", "a", {}, {}),
       MkStep(2, "analyze", "b", {}, {}),
       MkStep(3, "compose", "", {2}, {}) >>,
    DeclaredInputs, FALSE)

\* a branch forward over step 2 and a branch back to step 1
WfBranch ==
  MkWorkflow("branch",
    << MkStep(1, "branch", "a", {}, {3}),
       MkStep(2, "analyze", "b", {}, {}),
       MkStep(3, "branch", "", {}, {1}) >>,
    DeclaredInputs, FALSE)

\* a single step; the only definition with a defaulted input
WfOne ==
  MkWorkflow("one", << MkStep(1, "analyze", "a", {}, {}) >>, InputsWithDefault, FALSE)

\* step ids 1..2 stored out of array order, the branch last
WfPerm ==
  MkWorkflow("perm",
    << MkStep(2, "analyze", "b", {}, {}),
       MkStep(1, "branch", "a", {}, {2}) >>,
    DeclaredInputs, FALSE)

\* the second step saves no result; the last step may branch to itself
WfQuiet ==
  MkWorkflow("quiet",
    << MkStep(1, "tool_call", "a", {}, {}),
       MkStep(2, "analyze", "", {}, {}),
       MkStep(3, "branch", "", {}, {1, 3}) >>,
    DeclaredInputs, FALSE)

\* the branch declares a goto_step that is not a step of the definition
WfDangling ==
  MkWorkflow("dangling",
    << MkStep(1, "branch", "a", {}, {3}),
       MkStep(2, "analyze", "b", {}, {}) >>,
    DeclaredInputs, FALSE)

\* variant: step ids are checked, branch references are not
validateWorkflow_noReferences(workflow) ==
  LET steps == workflow.steps
      stepIds == { steps[i].id : i \in 1..Len(steps) }
  IN /\ Len(steps) >= 1
     /\ \A i, j \in 1..Len(steps) : steps[i].id = steps[j].id => i = j
     /\ stepIds = 1..Cardinality(stepIds)

\* WorkflowValidator.validateWorkflow(...).success (storage.ts:181-217): at
\* least one step, no step id twice, the sorted ids are 1, 2, ..., and every
\* goto_step of a branch is the id of a step
validateWorkflow(workflow) ==
  LET steps == workflow.steps
      stepIds == { steps[i].id : i \in 1..Len(steps) }
  IN /\ Len(steps) >= 1
     /\ \A i, j \in 1..Len(steps) : steps[i].id = steps[j].id => i = j
     /\ stepIds = 1..Cardinality(stepIds)
     /\ \A i \in 1..Len(steps) :
          steps[i].action = "branch" => steps[i].conditions \subseteq stepIds

\* the definitions a caller submits, and those of them the validator lets
\* into the storage
Submitted == {WfSeq3, WfBranch, WfOne, WfPerm, WfQuiet, WfDangling}
Workflows == { workflow \in Submitted : validateWorkflow(workflow) }

\* the definitions update_workflow may write: one shorter, one longer
Updates == { workflow \in {WfOne, WfSeq3} : validateWorkflow(workflow) }

WorkflowIds == {"w1"}
\* the ids a caller may name: the stored one and one that has no file
CallerWorkflowIds == WorkflowIds \cup {"w0"}

\* the inputs arguments the caller may send to start_workflow: none, a
\* number for x, a string for x
InputArgs ==
  { EmptyMap, [k \in {"x"} |-> Num("1")], [k \in {"x"} |-> Str(<<Word("one")>>)] }

(***************************************************************************)
(* WorkflowValidator.validateInputs.                                       *)
(***************************************************************************)
InputOf(inputs, key) == IF key \in DOMAIN inputs THEN inputs[key] ELSE Undefined

\* typeof value (all modelled values are scalars, none is an array)
actualType(value) == value.type

\* variant: required inputs are checked, declared types are not
validateInputsOk_noTypes(workflow, inputs) ==
  \A key \in DOMAIN workflow.inputs :
    ~(workflow.inputs[key].required /\ InputOf(inputs, key) = Undefined)

\* validateInputs(...).success (storage.ts:343-375)
validateInputsOk(workflow, inputs) ==
  \A key \in DOMAIN workflow.inputs :
    LET param == workflow.inputs[key]
        value == InputOf(inputs, key)
    IN /\ ~(param.required /\ value = Undefined)
       /\ (value # Undefined => actualType(value) = param.type)

\* validateInputs writes the declared defaults into the caller's inputs object
inputsWithDefaults(workflow, inputs) ==
  LET defaulted == { key \in DOMAIN workflow.inputs :
                       /\ InputOf(inputs, key) = Undefined
                       /\ ~workflow.inputs[key].required
                       /\ workflow.inputs[key].default # Undefined }
  IN [k \in DOMAIN inputs \cup defaulted |->
        IF k \in defaulted THEN workflow.inputs[k].default ELSE inputs[k]]

(***************************************************************************)
(* Sessions.                                                               *)
(***************************************************************************)
NoSession ==
  [workflow_id |-> "", current_step_index |-> 0, total_steps |-> 0,
   variables |-> EmptyMap, status |-> "none",
   step_outputs |-> EmptyMap, previous_variables |-> EmptyMap]

\* variant: the snapshot of the variables is seeded with the inputs
newSession_snapshot(workflow_id, workflow, inputs) ==
  [workflow_id |-> workflow_id, current_step_index |-> 0,
   total_steps |-> Len(workflow.steps),
   variables |-> inputs, status |-> "active",
   step_outputs |-> EmptyMap, previous_variables |-> inputs]

\* the session literal of startWorkflow (index.ts:515-526)
newSession(workflow_id, workflow, inputs) ==
  [workflow_id |-> workflow_id, current_step_index |-> 0,
   total_steps |-> Len(workflow.steps),
   variables |-> inputs, status |-> "active",
   step_outputs |-> EmptyMap, previous_variables |-> EmptyMap]

\* workflow.steps[i] for a 0-based index i inside the array
stepAt(workflow, i) == workflow.steps[i + 1]

(***************************************************************************)
(* getVisibleVariables, getChangedVariables, generateStepInstructions.     *)
(***************************************************************************)
\* variant: show_all_variables is consulted only for a step without
\* dependencies
getVisibleVariables_depsFirst(workflow, step, session) ==
  IF step.dependencies = {}
  THEN IF step.show_all_variables \/ ~workflow.strict_dependencies
       THEN session.variables ELSE EmptyMap
  ELSE LET inputNames == DOMAIN workflow.inputs \cap DOMAIN session.variables
           outputNames ==
             { session.step_outputs[stepId].variable_name :
                 stepId \in step.dependencies \cap DOMAIN session.step_outputs }
               \cap DOMAIN session.variables
       IN [k \in inputNames \cup outputNames |-> session.variables[k]]

\* variant: in strict mode a step without dependencies still sees the
\* workflow inputs
getVisibleVariables_inputsAlways(workflow, step, session) ==
  IF step.show_all_variables THEN session.variables
  ELSE IF step.dependencies = {} /\ ~workflow.strict_dependencies
  THEN session.variables
  ELSE LET inputNames == DOMAIN workflow.inputs \cap DOMAIN session.variables
           outputNames ==
             { session.step_outputs[stepId].variable_name :
                 stepId \in step.dependencies \cap DOMAIN session.step_outputs }
               \cap DOMAIN session.variables
       IN [k \in inputNames \cup outputNames |-> session.variables[k]]

\* variant: a dependency shows the value recorded in step_outputs instead
\* of the current value of the variable
getVisibleVariables_recorded(workflow, step, session) ==
  IF step.show_all_variables THEN session.variables
  ELSE IF step.dependencies = {}
  THEN IF workflow.strict_dependencies THEN EmptyMap ELSE session.variables
  ELSE LET inputNames == DOMAIN workflow.inputs \cap DOMAIN session.variables
           produced == step.dependencies \cap DOMAIN session.step_outputs
           outputNames ==
             { session.step_outputs[stepId].variable_name : stepId \in produced }
               \cap DOMAIN session.variables
       IN [k \in inputNames \cup outputNames |->
             IF k \in outputNames
             THEN session.step_outputs[
                    CHOOSE stepId \in produced :
                      session.step_outputs[stepId].variable_name = k].value
             ELSE session.variables[k]]

\* index.ts:675-712
getVisibleVariables(workflow, step, session) ==
  IF step.show_all_variables THEN session.variables
  ELSE IF step.dependencies = {}
  THEN IF workflow.strict_dependencies THEN EmptyMap ELSE session.variables
  ELSE LET inputNames == DOMAIN workflow.inputs \cap DOMAIN session.variables
           outputNames ==
             { session.step_outputs[stepId].variable_name :
                 stepId \in step.dependencies \cap DOMAIN session.step_outputs }
               \cap DOMAIN session.variables
       IN [k \in inputNames \cup outputNames |-> session.variables[k]]

\* variant: the test for a modified key is an if of its own, not an else
\* branch of the test for an added key
getChangedVariables_noElse(session) ==
  [added |-> { k \in DOMAIN session.variables : k \notin DOMAIN session.previous_variables },
   modified |-> { k \in DOMAIN session.variables :
                    InputOf(session.previous_variables, k) # session.variables[k] },
   unchanged |-> { k \in DOMAIN session.variables :
                    /\ k \in DOMAIN session.previous_variables
                    /\ session.variables[k] = session.previous_variables[k] }]

\* index.ts:714-730; the values are compared by their JSON.stringify texts
getChangedVariables(session) ==
  [added |-> { k \in DOMAIN session.variables : k \notin DOMAIN session.previous_variables },
   modified |-> { k \in DOMAIN session.variables :
                    /\ k \in DOMAIN session.previous_variables
                    /\ JSONstringify(session.variables[k])
                         # JSONstringify(session.previous_variables[k]) },
   unchanged |-> { k \in DOMAIN session.variables :
                    /\ k \in DOMAIN session.previous_variables
                    /\ JSONstringify(session.variables[k])
                         = JSONstringify(session.previous_variables[k]) }]

Min(a, b) == IF a < b THEN a ELSE b

NoInstruction ==
  [step_id |-> 0, position |-> 0, total |-> 0, action |-> "", description |-> <<>>,
   save_result_as |-> "", changesHeader |-> FALSE,
   visible |-> EmptyMap, added |-> {}, modified |-> {},
   upcoming |-> <<>>, more |-> 0]

\* variant: the changes are listed without the test for visibility
generateStepInstructions_allChanges(workflow, step, session) ==
  LET visibleVariables == getVisibleVariables(workflow, step, session)
      showChanges == /\ session.current_step_index > 0
                     /\ DOMAIN session.previous_variables # {}
      changes == getChangedVariables(session)
      len == Len(workflow.steps)
      maxPreview == Min(session.current_step_index + 3, len)
      hasUpcoming == session.current_step_index < len - 1
  IN [step_id |-> step.id,
      position |-> session.current_step_index + 1,
      total |-> session.total_steps,
      action |-> step.action,
      description |-> resolveTemplateVariables(step.description, session.variables),
      save_result_as |-> step.save_result_as,
      changesHeader |-> showChanges /\ (changes.added # {} \/ changes.modified # {}),
      visible |-> visibleVariables,
      added |-> IF showChanges THEN changes.added ELSE {},
      modified |-> IF showChanges THEN changes.modified ELSE {},
      upcoming |-> IF hasUpcoming
                   THEN [j \in 1..(maxPreview - session.current_step_index - 1) |->
                           [number |-> session.current_step_index + j + 1,
                            action |-> stepAt(workflow, session.current_step_index + j).action]]
                   ELSE <<>>,
      more |-> IF hasUpcoming /\ maxPreview < len THEN len - maxPreview ELSE 0]

\* index.ts:732-864
generateStepInstructions(workflow, step, session) ==
  LET visibleVariables == getVisibleVariables(workflow, step, session)
      showChanges == /\ session.current_step_index > 0
                     /\ DOMAIN session.previous_variables # {}
      changes == getChangedVariables(session)
      len == Len(workflow.steps)
      maxPreview == Min(session.current_step_index + 3, len)
      hasUpcoming == session.current_step_index < len - 1
  IN [step_id |-> step.id,
      position |-> session.current_step_index + 1,
      total |-> session.total_steps,
      action |-> step.action,
      description |-> resolveTemplateVariables(step.description, session.variables),
      save_result_as |-> step.save_result_as,
      changesHeader |-> showChanges /\ (changes.added # {} \/ changes.modified # {}),
      visible |-> visibleVariables,
      added |-> IF showChanges THEN changes.added \cap DOMAIN visibleVariables ELSE {},
      modified |-> IF showChanges THEN changes.modified \cap DOMAIN visibleVariables ELSE {},
      upcoming |-> IF hasUpcoming
                   THEN [j \in 1..(maxPreview - session.current_step_index - 1) |->
                           [number |-> session.current_step_index + j + 1,
                            action |-> stepAt(workflow, session.current_step_index + j).action]]
                   ELSE <<>>,
      more |-> IF hasUpcoming /\ maxPreview < len THEN len - maxPreview ELSE 0]

(***************************************************************************)
(* The pieces of runWorkflowStep.                                          *)
(***************************************************************************)
\* index.ts:559, the array index of the step the result is stored for
previousStepIndex(session) == session.current_step_index - 1

\* variant: the result is stored for the step at current_step_index, at
\* index 0 as well
storeResult_current(session, workflow, step_result) ==
  IF step_result # Undefined
  THEN IF session.current_step_index >= Len(workflow.steps)
       THEN [error |-> "TypeError", session |-> session]
       ELSE LET currentStep == stepAt(workflow, session.current_step_index)
            IN IF currentStep.save_result_as # ""
               THEN [error |-> "",
                     session |->
                       [session EXCEPT
                          !.step_outputs =
                             Assign(@, currentStep.id,
                                    [variable_name |-> currentStep.save_result_as,
                                     value |-> step_result]),
                          !.previous_variables = session.variables,
                          !.variables = Assign(@, currentStep.save_result_as, step_result)]]
               ELSE [error |-> "", session |-> session]
  ELSE [error |-> "", session |-> session]

\* variant: the variables object is replaced by one that holds the new
\* binding only
storeResult_replace(session, workflow, step_result) ==
  IF step_result # Undefined /\ session.current_step_index > 0
  THEN IF previousStepIndex(session) >= Len(workflow.steps)
       THEN [error |-> "TypeError", session |-> session]
       ELSE LET previousStep == stepAt(workflow, previousStepIndex(session))
            IN IF previousStep.save_result_as # ""
               THEN [error |-> "",
                     session |->
                       [session EXCEPT
                          !.step_outputs =
                             Assign(@, previousStep.id,
                                    [variable_name |-> previousStep.save_result_as,
                                     value |-> step_result]),
                          !.previous_variables = session.variables,
                          !.variables = Assign(EmptyMap, previousStep.save_result_as,
                                               step_result)]]
               ELSE [error |-> "", session |-> session]
  ELSE [error |-> "", session |-> session]

\* variant: the snapshot is taken at the first stored result only
storeResult_snapshotOnce(session, workflow, step_result) ==
  IF step_result # Undefined /\ session.current_step_index > 0
  THEN IF previousStepIndex(session) >= Len(workflow.steps)
       THEN [error |-> "TypeError", session |-> session]
       ELSE LET previousStep == stepAt(workflow, previousStepIndex(session))
            IN IF previousStep.save_result_as # ""
               THEN [error |-> "",
                     session |->
                       [session EXCEPT
                          !.step_outputs =
                             Assign(@, previousStep.id,
                                    [variable_name |-> previousStep.save_result_as,
                                     value |-> step_result]),
                          !.previous_variables =
                             IF session.step_outputs = EmptyMap
                             THEN session.variables ELSE @,
                          !.variables = Assign(@, previousStep.save_result_as, step_result)]]
               ELSE [error |-> "", session |-> session]
  ELSE [error |-> "", session |-> session]

\* index.ts:557-573, "Store result from previous step if provided"
storeResult(session, workflow, step_result) ==
  IF step_result # Undefined /\ session.current_step_index > 0
  THEN IF previousStepIndex(session) >= Len(workflow.steps)
       THEN \* workflow.steps[i] is undefined and reading its property throws
            [error |-> "TypeError", session |-> session]
       ELSE LET previousStep == stepAt(workflow, previousStepIndex(session))
            IN IF previousStep.save_result_as # ""
               THEN [error |-> "",
                     session |->
                       [session EXCEPT
                          !.step_outputs =
                             Assign(@, previousStep.id,
                                    [variable_name |-> previousStep.save_result_as,
                                     value |-> step_result]),
                          !.previous_variables = session.variables,
                          !.variables = Assign(@, previousStep.save_result_as, step_result)]]
               ELSE [error |-> "", session |-> session]
  ELSE [error |-> "", session |-> session]

\* variant: the completion check forgets next_step_needed
isComplete_ignoresFlag(session, workflow, next_step_needed) ==
  session.current_step_index >= Len(workflow.steps)

\* index.ts:576, "Check if workflow is complete"
isComplete(session, workflow, next_step_needed) ==
  ~next_step_needed \/ session.current_step_index >= Len(workflow.steps)

\* the i flag of the pattern: letters are compared in lower case
toLowerCase(word) ==
  CASE word = "Step" -> "step"
    [] word = "STEP" -> "step"
    [] OTHER -> word

\* variant: the pattern is matched case-sensitively
stepRefs_caseSensitive(text) ==
  { i \in 1..Len(text) : text[i].isStep /\ text[i].w = "step" }

\* branchResult.match(/step (\d+)/i): the positions of the occurrences
stepRefs(text) ==
  { i \in 1..Len(text) : text[i].isStep /\ toLowerCase(text[i].w) = "step" }
hasGotoMatch(text) == stepRefs(text) # {}
\* parseInt(gotoMatch[1]) of the leftmost occurrence
gotoMatch(text) == text[CHOOSE i \in stepRefs(text) : \A j \in stepRefs(text) : i <= j].n

\* variant: the target id is taken as an array position ("steps are
\* 1-indexed, array is 0-indexed") instead of being looked up
findIndex_byPosition(steps, targetStep) ==
  IF targetStep \in 1..Len(steps) THEN targetStep - 1 ELSE -1

\* steps.findIndex(s => s.id === targetStep), 0-based, -1 when absent
findIndex(steps, targetStep) ==
  IF \E i \in 1..Len(steps) : steps[i].id = targetStep
  THEN (CHOOSE i \in 1..Len(steps) :
          /\ steps[i].id = targetStep
          /\ \A j \in 1..Len(steps) : steps[j].id = targetStep => i <= j) - 1
  ELSE -1

\* variant: a branch target that is not in the definition falls back to the
\* sequential successor
nextStepIndexOf_fallback(session, workflow, step_result) ==
  LET currentStep == stepAt(workflow, session.current_step_index)
      found == IF /\ currentStep.action = "branch"
                  /\ Truthy(step_result)
                  /\ hasGotoMatch(step_result.text)
               THEN findIndex(workflow.steps, gotoMatch(step_result.text))
               ELSE -1
  IN IF found # -1 THEN found ELSE session.current_step_index + 1

\* variant: a branch step whose result names no step is an invalid target
nextStepIndexOf_mustMatch(session, workflow, step_result) ==
  LET currentStep == stepAt(workflow, session.current_step_index)
  IN IF currentStep.action = "branch"
     THEN IF Truthy(step_result) /\ hasGotoMatch(step_result.text)
          THEN findIndex(workflow.steps, gotoMatch(step_result.text))
          ELSE -1
     ELSE session.current_step_index + 1

\* index.ts:596-612: the index of the next step, -1 for a branch target that
\* is not in the definition
nextStepIndexOf(session, workflow, step_result) ==
  LET currentStep == stepAt(workflow, session.current_step_index)
  IN IF /\ currentStep.action = "branch"
        /\ Truthy(step_result)
        /\ hasGotoMatch(step_result.text)
     THEN findIndex(workflow.steps, gotoMatch(step_result.text))
     ELSE session.current_step_index + 1

NoResponse ==
  [kind |-> "none", error |-> "", instruction |-> NoInstruction,
   final_variables |-> EmptyMap]
ErrorResponse(name) == [NoResponse EXCEPT !.kind = "error", !.error = name]
InstructionResponse(instr) == [NoResponse EXCEPT !.kind = "instruction", !.instruction = instr]
CompletedResponse(session) ==
  [NoResponse EXCEPT !.kind = "completed", !.final_variables = session.variables]

\* variant: the session is marked completed but left in the map
completeSession_keep(session) ==
  LET done == [session EXCEPT !.status = "completed"]
  IN [session |-> done, deleted |-> FALSE, response |-> CompletedResponse(done)]

\* index.ts:577-593 and 618-634: mark the session completed, delete it from
\* the map and return the completion summary
completeSession(session) ==
  LET done == [session EXCEPT !.status = "completed"]
  IN [session |-> done, deleted |-> TRUE, response |-> CompletedResponse(done)]

\* variant: the completion check comes before the result is stored
runWorkflowStepBody_terminateFirst(session, workflow, step_result, next_step_needed) ==
  IF isComplete(session, workflow, next_step_needed)
  THEN completeSession(session)
  ELSE LET stored == storeResult(session, workflow, step_result)
           s1 == stored.session
       IN IF stored.error # ""
          THEN [session |-> s1, deleted |-> FALSE, response |-> ErrorResponse(stored.error)]
          ELSE LET nextStepIndex == nextStepIndexOf(s1, workflow, step_result)
               IN IF nextStepIndex = -1
                  THEN [session |-> s1, deleted |-> FALSE,
                        response |-> ErrorResponse("InvalidBranchTarget")]
                  ELSE LET s3 == [s1 EXCEPT !.current_step_index = nextStepIndex]
                       IN IF s3.current_step_index >= Len(workflow.steps)
                          THEN completeSession(s3)
                          ELSE [session |-> s3, deleted |-> FALSE,
                                response |->
                                  InstructionResponse(
                                    generateStepInstructions(
                                      workflow, stepAt(workflow, s3.current_step_index), s3))]

\* variant: the branch target is resolved before the completion check
runWorkflowStepBody_resolveFirst(session, workflow, step_result, next_step_needed) ==
  LET stored == storeResult(session, workflow, step_result)
      s1 == stored.session
  IN IF stored.error # ""
     THEN [session |-> s1, deleted |-> FALSE, response |-> ErrorResponse(stored.error)]
     ELSE IF s1.current_step_index < Len(workflow.steps)
             /\ nextStepIndexOf(s1, workflow, step_result) = -1
     THEN [session |-> s1, deleted |-> FALSE,
           response |-> ErrorResponse("InvalidBranchTarget")]
     ELSE IF isComplete(s1, workflow, next_step_needed)
     THEN completeSession(s1)
     ELSE LET s3 == [s1 EXCEPT !.current_step_index =
                                  nextStepIndexOf(s1, workflow, step_result)]
          IN IF s3.current_step_index >= Len(workflow.steps)
             THEN completeSession(s3)
             ELSE [session |-> s3, deleted |-> FALSE,
                   response |->
                     InstructionResponse(
                       generateStepInstructions(
                         workflow, stepAt(workflow, s3.current_step_index), s3))]

\* variant: the branch target is resolved before the result is stored, so a
\* failed resolution leaves the session as it was
runWorkflowStepBody_branchFirst(session, workflow, step_result, next_step_needed) ==
  LET stored == storeResult(session, workflow, step_result)
      s1 == stored.session
  IN IF stored.error # ""
     THEN [session |-> s1, deleted |-> FALSE, response |-> ErrorResponse(stored.error)]
     ELSE IF isComplete(s1, workflow, next_step_needed)
     THEN completeSession(s1)
     ELSE LET nextStepIndex == nextStepIndexOf(session, workflow, step_result)
          IN IF nextStepIndex = -1
             THEN [session |-> session, deleted |-> FALSE,
                   response |-> ErrorResponse("InvalidBranchTarget")]
             ELSE LET s3 == [s1 EXCEPT !.current_step_index = nextStepIndex]
                  IN IF s3.current_step_index >= Len(workflow.steps)
                     THEN completeSession(s3)
                     ELSE [session |-> s3, deleted |-> FALSE,
                           response |->
                             InstructionResponse(
                               generateStepInstructions(
                                 workflow, stepAt(workflow, s3.current_step_index), s3))]

\* index.ts:552-648, the body of runWorkflowStep after the session lookup:
\* the session object afterwards, whether it was deleted from the map, and
\* what the call returned or threw
runWorkflowStepBody(session, workflow, step_result, next_step_needed) ==
  LET stored == storeResult(session, workflow, step_result)
      s1 == stored.session
  IN IF stored.error # ""
     THEN [session |-> s1, deleted |-> FALSE, response |-> ErrorResponse(stored.error)]
     ELSE IF isComplete(s1, workflow, next_step_needed)
     THEN completeSession(s1)
     ELSE LET nextStepIndex == nextStepIndexOf(s1, workflow, step_result)
          IN IF nextStepIndex = -1
             THEN [session |-> s1, deleted |-> FALSE,
                   response |-> ErrorResponse("InvalidBranchTarget")]
             ELSE LET s3 == [s1 EXCEPT !.current_step_index = nextStepIndex]
                  IN IF s3.current_step_index >= Len(workflow.steps)
                     THEN completeSession(s3)
                     ELSE [session |-> s3, deleted |-> FALSE,
                           response |->
                             InstructionResponse(
                               generateStepInstructions(
                                 workflow, stepAt(workflow, s3.current_step_index), s3))]

(***************************************************************************)
(* State.                                                                  *)
(***************************************************************************)
VARIABLES
  storage,    \* workflow id -> the definition in its file
  sessions,   \* this.sessions: execution id -> session
  nextId,     \* the execution ids 1..nextId-1 have been generated
  calls,      \* number of tool calls so far
  call,       \* the arguments of the last tool call and what it found
  response,   \* what the last tool call returned or threw
  hist,       \* per execution id, the record of its calls
  probe,      \* one evaluation of the instruction helpers: arguments and values
  pending,    \* run_workflow_step calls suspended at await this.storage.get
  objects     \* execution id -> the session object, in the map or held by a call

vars == <<storage, sessions, nextId, calls, call, response, hist, probe,
          pending, objects>>

NoCall ==
  [op |-> "none", workflow_id |-> "", execution_id |-> 0,
   inputs |-> EmptyMap, step_result |-> Undefined, next_step_needed |-> TRUE,
   found |-> FALSE, pre |-> NoSession, post |-> NoSession, workflow |-> WfOne]

newHist(workflow, inputs) ==
  [workflow |-> workflow,          \* the definition start_workflow loaded
   inputs |-> inputs,              \* the variables the session started with
   advances |-> 0,                 \* run_workflow_step calls that found the session
   edited |-> FALSE,               \* the stored definition was updated since
   current |-> stepAt(workflow, 0).id,   \* id of the step instructed last
   issued |-> {stepAt(workflow, 0).id},  \* ids of all steps instructed
   supplied |-> EmptyMap,          \* step id -> result sent after its instruction
   unanswered |-> FALSE,           \* some advance carried no result
   stopped |-> FALSE,              \* some advance passed next_step_needed = false
   failed |-> FALSE,               \* some advance threw
   completed |-> FALSE,
   completedAt |-> 0,              \* the number of the advance that completed it
   final |-> EmptyMap]             \* final_variables of the completion summary

\* no evaluation yet
NoProbe ==
  [op |-> "none", evaluated |-> FALSE,
   template |-> Undefined, resolved |-> Undefined, resolvedAgain |-> Undefined,
   workflow |-> WfOne, step |-> stepAt(WfOne, 0),
   session |-> NoSession, visible |-> EmptyMap,
   changes |-> [added |-> {}, modified |-> {}, unchanged |-> {}],
   instruction |-> NoInstruction,
   other |-> NoSession, otherInstruction |-> NoInstruction]

Init ==
  /\ storage \in [WorkflowIds -> Workflows]
  /\ sessions = EmptyMap
  /\ nextId = 1
  /\ calls = 0
  /\ call = NoCall
  /\ response = NoResponse
  /\ hist = EmptyMap
  /\ probe = NoProbe
  /\ pending = <<>>
  /\ objects = EmptyMap

\* every tool call counts against the length of the run
Tick == calls < MaxCalls /\ calls' = calls + 1

(***************************************************************************)
(* start_workflow (index.ts:494-542).                                      *)
(***************************************************************************)
StartWorkflowFails(id, inputs) ==
  /\ Tick
  /\ UNCHANGED <<probe, pending, objects>>
  /\ IF id \in DOMAIN storage
     THEN storage[id].is_deleted \/ ~validateInputsOk(storage[id], inputs)
     ELSE TRUE
  /\ call' = [NoCall EXCEPT !.op = "start_workflow", !.workflow_id = id,
                            !.inputs = inputs]
  /\ response' = ErrorResponse(
       IF id \notin DOMAIN storage THEN "WorkflowNotFound"
       ELSE IF storage[id].is_deleted THEN "DeletedWorkflow"
       ELSE "ValidationFailed")
  /\ UNCHANGED <<storage, sessions, nextId, hist>>

StartWorkflowOk(id, inputs) ==
  /\ Tick
  /\ UNCHANGED <<probe, pending, objects>>
  /\ id \in DOMAIN storage
  /\ ~storage[id].is_deleted
  /\ validateInputsOk(storage[id], inputs)
  /\ LET workflow == storage[id]
         executionId == nextId
         session == newSession(id, workflow, inputsWithDefaults(workflow, inputs))
     IN /\ sessions' = Assign(sessions, executionId, session)
        /\ nextId' = nextId + 1
        /\ hist' = Assign(hist, executionId, newHist(workflow, session.variables))
        /\ call' = [NoCall EXCEPT !.op = "start_workflow", !.workflow_id = id,
                                  !.inputs = inputs,
                                  !.execution_id = executionId, !.found = TRUE,
                                  !.post = session, !.workflow = workflow]
        /\ response' = InstructionResponse(
                         generateStepInstructions(workflow, stepAt(workflow, 0), session))
  /\ UNCHANGED storage

StartWorkflow ==
  \E id \in CallerWorkflowIds, inputs \in InputArgs :
    \/ StartWorkflowOk(id, inputs)
    \/ StartWorkflowFails(id, inputs)

(***************************************************************************)
(* run_workflow_step (index.ts:544-648).                                   *)
(***************************************************************************)
Remove(map, key) == [k \in DOMAIN map \ {key} |-> map[k]]

\* variant: the sessions of one workflow share one variables object
putSession_shared(map, execution_id, out) ==
  IF out.deleted THEN Remove(map, execution_id)
  ELSE [e \in DOMAIN map |->
          IF e = execution_id THEN out.session
          ELSE IF map[e].workflow_id = out.session.workflow_id
          THEN [map[e] EXCEPT !.variables = out.session.variables]
          ELSE map[e]]

\* the session object the map holds for execution_id was changed in place
\* (index.ts:560-615), or deleted from the map (index.ts:579, 620)
putSession(map, execution_id, out) ==
  IF out.deleted THEN Remove(map, execution_id)
  ELSE [map EXCEPT ![execution_id] = out.session]

\* variant: an unknown execution id resets the map before the throw
RunWorkflowStepNotFound_clears(execution_id, step_result, next_step_needed) ==
  /\ Tick
  /\ UNCHANGED <<probe, pending, objects>>
  /\ execution_id \notin DOMAIN sessions
  /\ call' = [NoCall EXCEPT !.op = "run_workflow_step",
                            !.execution_id = execution_id,
                            !.step_result = step_result,
                            !.next_step_needed = next_step_needed]
  /\ response' = ErrorResponse("NotFound")
  /\ sessions' = EmptyMap
  /\ UNCHANGED <<storage, nextId, hist>>

\* the lookup at index.ts:547-550 fails before step_result and
\* next_step_needed are read
RunWorkflowStepNotFound(execution_id, step_result, next_step_needed) ==
  /\ Tick
  /\ UNCHANGED <<probe, pending, objects>>
  /\ execution_id \notin DOMAIN sessions
  /\ call' = [NoCall EXCEPT !.op = "run_workflow_step",
                            !.execution_id = execution_id,
                            !.step_result = step_result,
                            !.next_step_needed = next_step_needed]
  /\ response' = ErrorResponse("NotFound")
  /\ UNCHANGED <<storage, sessions, nextId, hist>>

RunWorkflowStepFound(execution_id, step_result, next_step_needed) ==
  /\ Tick
  /\ UNCHANGED <<probe, pending, objects>>
  /\ execution_id \in DOMAIN sessions
  /\ LET session == sessions[execution_id]
         workflow == storage[session.workflow_id]
         out == runWorkflowStepBody(session, workflow, step_result, next_step_needed)
         h == hist[execution_id]
     IN /\ sessions' = putSession(sessions, execution_id, out)
        /\ call' = [NoCall EXCEPT !.op = "run_workflow_step",
                                  !.execution_id = execution_id,
                                  !.step_result = step_result,
                                  !.next_step_needed = next_step_needed,
                                  !.found = TRUE, !.pre = session,
                                  !.post = out.session, !.workflow = workflow]
        /\ response' = out.response
        /\ hist' = [hist EXCEPT ![execution_id] =
             [h EXCEPT
                !.advances = @ + 1,
                !.supplied = IF step_result # Undefined
                             THEN Assign(@, h.current, step_result) ELSE @,
                !.unanswered = @ \/ step_result = Undefined,
                !.stopped = @ \/ ~next_step_needed,
                !.failed = @ \/ out.response.kind = "error",
                !.current = IF out.response.kind = "instruction"
                            THEN out.response.instruction.step_id ELSE @,
                !.issued = IF out.response.kind = "instruction"
                           THEN @ \cup {out.response.instruction.step_id} ELSE @,
                !.completed = out.response.kind = "completed",
                !.completedAt = IF out.response.kind = "completed"
                                THEN h.advances + 1 ELSE 0,
                !.final = out.response.final_variables]]
  /\ UNCHANGED <<storage, nextId>>

RunWorkflowStep ==
  \E execution_id \in 0..(nextId - 1), next_step_needed \in BOOLEAN :
    \/ \E step_result \in Results :
         RunWorkflowStepFound(execution_id, step_result, next_step_needed)
    \/ \E step_result \in UnknownResults :
         RunWorkflowStepNotFound(execution_id, step_result, next_step_needed)

(***************************************************************************)
(* update_workflow (index.ts:412-470) and delete_workflow (472-492).       *)
(***************************************************************************)
UpdateWorkflow ==
  \E id \in WorkflowIds, updates \in Updates :
    /\ Tick
    /\ UNCHANGED <<probe, pending, objects>>
    /\ updates.steps # storage[id].steps
    /\ storage' = [storage EXCEPT ![id] =
                     [updates EXCEPT !.is_deleted = storage[id].is_deleted]]
    /\ hist' = [e \in DOMAIN hist |->
                  IF e \in DOMAIN sessions /\ sessions[e].workflow_id = id
                  THEN [hist[e] EXCEPT !.edited = TRUE] ELSE hist[e]]
    /\ call' = [NoCall EXCEPT !.op = "update_workflow", !.workflow_id = id]
    /\ response' = [NoResponse EXCEPT !.kind = "ok"]
    /\ UNCHANGED <<sessions, nextId>>

DeleteWorkflow ==
  \E id \in WorkflowIds :
    /\ Tick
    /\ UNCHANGED <<probe, pending, objects>>
    /\ ~storage[id].is_deleted
    /\ storage' = [storage EXCEPT ![id].is_deleted = TRUE]
    /\ call' = [NoCall EXCEPT !.op = "delete_workflow", !.workflow_id = id]
    /\ response' = [NoResponse EXCEPT !.kind = "ok"]
    /\ UNCHANGED <<sessions, nextId, hist>>

Next ==
  \/ StartWorkflow
  \/ RunWorkflowStep
  \/ UpdateWorkflow
  \/ DeleteWorkflow

Spec == Init /\ [][Next]_vars

(***************************************************************************)
(* The instruction helpers on their own: getVisibleVariables,              *)
(* getChangedVariables and generateStepInstructions applied to the third   *)
(* step of a three-step definition and a session that reached it.          *)
(***************************************************************************)
ProbeNames == {"x", "a", "b"}
ProbeValues == {Num("1"), Str(<<Word("r")>>)}

\* the variables of a session: the input x and the results a and b, each
\* present or not
ProbeVariables == UNION { [D -> ProbeValues] : D \in SUBSET ProbeNames }

\* previous_variables is empty or the variables before the last assignment:
\* the same keys and values, but for one key that was added or overwritten
ProbePrevious(variables) ==
  {EmptyMap, variables}
    \cup { [k \in DOMAIN variables \ {name} |-> variables[k]] : name \in DOMAIN variables }
    \cup { [variables EXCEPT ![name] = value] :
             name \in DOMAIN variables, value \in ProbeValues }

\* step_outputs: for each of the steps 1 and 2 no entry, or an entry that
\* names a variable of the session and holds the result stored then
ProbeOutputs(variables) ==
  LET entries == { [variable_name |-> name, value |-> value] :
                     name \in DOMAIN variables \cap {"a", "b"}, value \in ProbeValues }
  IN UNION { [D -> entries] : D \in SUBSET {1, 2} }

ProbeSession(variables, outputs, previous) ==
  [workflow_id |-> "w1", current_step_index |-> 2, total_steps |-> 3,
   variables |-> variables, status |-> "active",
   step_outputs |-> outputs, previous_variables |-> previous]

\* the step under evaluation, with and without show_all_variables, with
\* no, one or two dependencies
ProbeSteps ==
  { [MkStep(3, "compose", "", deps, {}) EXCEPT !.show_all_variables = showAll] :
      deps \in SUBSET {1, 2}, showAll \in BOOLEAN }

ProbeWorkflow(step, strict) ==
  MkWorkflow("probe",
    << MkStep(1, "tool_call", "a", {}, {}), MkStep(2, "analyze", "b", {}, {}), step >>,
    DeclaredInputs, strict)

InitPure ==
  /\ storage = [id \in WorkflowIds |-> WfOne]
  /\ sessions = EmptyMap
  /\ nextId = 1
  /\ calls = 0
  /\ call = NoCall
  /\ response = NoResponse
  /\ hist = EmptyMap
  /\ probe = NoProbe
  /\ pending = <<>>
  /\ objects = EmptyMap

Evaluate ==
  /\ probe = NoProbe
  /\ \E step \in ProbeSteps, strict \in BOOLEAN, variables \in ProbeVariables :
       \E outputs \in ProbeOutputs(variables), previous \in ProbePrevious(variables) :
         LET workflow == ProbeWorkflow(step, strict)
             session == ProbeSession(variables, outputs, previous)
         IN probe' = [NoProbe EXCEPT
                        !.op = "evaluate", !.evaluated = TRUE,
                        !.workflow = workflow, !.step = step, !.session = session,
                        !.visible = getVisibleVariables(workflow, step, session),
                        !.changes = getChangedVariables(session),
                        !.instruction = generateStepInstructions(workflow, step, session)]
  /\ UNCHANGED <<storage, sessions, nextId, calls, call, response, hist, pending, objects>>

\* the actions of the steps of a sequential definition, by position
PreviewActions ==
  << "tool_call", "analyze", "consider", "research", "validate", "summarize",
     "decide", "extract", "compose" >>

\* a definition of len steps without branches, ids in array order
PreviewWorkflow(len) ==
  MkWorkflow("preview",
    [i \in 1..len |-> MkStep(i, PreviewActions[((i - 1) % Len(PreviewActions)) + 1], "", {}, {})],
    DeclaredInputs, FALSE)

\* the instruction of the step at index of a session of PreviewWorkflow(len)
Preview ==
  /\ probe = NoProbe
  /\ \E len \in 1..MaxSteps :
       \E index \in 0..(len - 1) :
         LET workflow == PreviewWorkflow(len)
             started == newSession("w1", workflow, [k \in {"x"} |-> Num("1")])
             session == [started EXCEPT !.current_step_index = index]
             step == stepAt(workflow, index)
         IN probe' = [NoProbe EXCEPT
                        !.op = "preview",
                        !.workflow = workflow, !.step = step, !.session = session,
                        !.instruction = generateStepInstructions(workflow, step, session)]
  /\ UNCHANGED <<storage, sessions, nextId, calls, call, response, hist, pending, objects>>

\* the names and values of the variables a template is resolved against:
\* a plain string, strings that hold a token, a number
TemplateNames == {"a", "b"}
TemplateValues ==
  { Str(<<Word("v")>>), Str(<<Tok("a")>>), Str(<<Tok("b"), Word("v")>>), Num("1") }
TemplateVariables == UNION { [D -> TemplateValues] : D \in SUBSET TemplateNames }

\* the values resolved: strings, an array and an object of strings, a number
Templates ==
  { Str(<<Word("say")>>),
    Str(<<Tok("a")>>),
    Str(<<Tok("a"), Word("and"), Tok("b")>>),
    Str(<<Tok("c"), Word("then"), Tok("a"), Tok("a")>>),
    Arr(<<Str(<<Tok("b")>>), Str(<<Word("say")>>), Num("1")>>),
    Obj(<<Entry("p", Str(<<Word("to"), Tok("a")>>)), Entry("q", Arr(<<Str(<<Tok("b")>>)>>))>>),
    Num("1") }

\* resolveTemplateInObject applied once, and again to its own result
Resolve ==
  /\ probe = NoProbe
  /\ \E template \in Templates, variables \in TemplateVariables :
       LET resolved == resolveTemplateInObject(template, variables)
       IN probe' = [NoProbe EXCEPT
                      !.op = "resolve",
                      !.template = template,
                      !.session = [NoSession EXCEPT !.variables = variables],
                      !.resolved = resolved,
                      !.resolvedAgain = resolveTemplateInObject(resolved, variables)]
  /\ UNCHANGED <<storage, sessions, nextId, calls, call, response, hist, pending, objects>>

\* the values a variable holds before and after an assignment: arrays and
\* objects of the same members in two orders, an object with another
\* member, a string and a number
DiffValues ==
  { Arr(<<Num("1"), Num("2")>>),
    Arr(<<Num("2"), Num("1")>>),
    Obj(<<Entry("p", Num("1")), Entry("q", Num("2"))>>),
    Obj(<<Entry("q", Num("2")), Entry("p", Num("1"))>>),
    Obj(<<Entry("p", Num("2")), Entry("q", Num("2"))>>),
    Str(<<Word("1")>>),
    Num("1") }

\* getChangedVariables after a result overwrote the variable a
Diff ==
  /\ probe = NoProbe
  /\ \E before \in DiffValues, after \in DiffValues :
       LET previous == [k \in {"x", "a"} |-> IF k = "x" THEN Num("1") ELSE before]
           session == ProbeSession(Assign(previous, "a", after), EmptyMap, previous)
       IN probe' = [NoProbe EXCEPT
                      !.op = "diff",
                      !.session = session,
                      !.changes = getChangedVariables(session)]
  /\ UNCHANGED <<storage, sessions, nextId, calls, call, response, hist, pending, objects>>

\* the step whose instruction is compared: without dependencies or
\* depending on step 2, its description plain or naming the result of step 1
CompareSteps ==
  { [MkStep(3, "compose", "", deps, {}) EXCEPT !.description = description] :
      deps \in {{}, {2}},
      description \in { <<Word("do")>>, <<Word("use"), Tok("a")>> } }

\* the instruction of one step for two sessions of one definition at the
\* same index; the second session differs from the first in the value of
\* one variable, and in whether that variable changed in the last advance
Compare ==
  /\ probe = NoProbe
  /\ \E step \in CompareSteps, strict \in BOOLEAN, variables \in ProbeVariables :
       \E outputs \in ProbeOutputs(variables), name \in DOMAIN variables,
          value \in ProbeValues, changed \in BOOLEAN :
         /\ value # variables[name]
         /\ LET workflow == ProbeWorkflow(step, strict)
                session == ProbeSession(variables, outputs, variables)
                otherVariables == [variables EXCEPT ![name] = value]
                other == ProbeSession(otherVariables, outputs,
                                      IF changed THEN variables ELSE otherVariables)
            IN probe' = [NoProbe EXCEPT
                           !.op = "compare",
                           !.workflow = workflow, !.step = step,
                           !.session = session, !.other = other,
                           !.visible = getVisibleVariables(workflow, step, session),
                           !.instruction = generateStepInstructions(workflow, step, session),
                           !.otherInstruction =
                              generateStepInstructions(workflow, step, other)]
  /\ UNCHANGED <<storage, sessions, nextId, calls, call, response, hist, pending, objects>>

NextPure ==
  \/ Evaluate
  \/ Preview
  \/ Resolve
  \/ Diff
  \/ Compare

SpecPure == InitPure /\ [][NextPure]_vars

(***************************************************************************)
(* Overlapping run_workflow_step calls.  The handler is async: between the *)
(* lookup of the session (index.ts:547) and the rest of the body it awaits *)
(* this.storage.get (index.ts:552), and another call may run meanwhile.    *)
(* A suspended call holds a reference to the session object it looked up.  *)
(***************************************************************************)
InitAsync ==
  /\ storage \in [WorkflowIds -> Workflows]
  /\ sessions = EmptyMap
  /\ nextId = 1
  /\ calls = 0
  /\ call = NoCall
  /\ response = NoResponse
  /\ hist = EmptyMap
  /\ probe = NoProbe
  /\ pending = <<>>
  /\ objects = EmptyMap

\* start_workflow with valid inputs: the new session object is put into
\* the map
AsyncStartWorkflow ==
  \E id \in WorkflowIds, inputs \in InputArgs :
    /\ Tick
    /\ validateInputsOk(storage[id], inputs)
    /\ LET workflow == storage[id]
           executionId == nextId
           session == newSession(id, workflow, inputsWithDefaults(workflow, inputs))
       IN /\ sessions' = Assign(sessions, executionId, session)
          /\ objects' = Assign(objects, executionId, session)
          /\ nextId' = nextId + 1
          /\ call' = [NoCall EXCEPT !.op = "start_workflow", !.workflow_id = id,
                                    !.inputs = inputs,
                                    !.execution_id = executionId, !.found = TRUE,
                                    !.post = session, !.workflow = workflow]
          /\ response' = InstructionResponse(
                           generateStepInstructions(workflow, stepAt(workflow, 0), session))
    /\ UNCHANGED <<storage, hist, probe, pending>>

\* index.ts:545-552: the session is in the map; the call is suspended at
\* the await with the object it found
AsyncLookup ==
  \E execution_id \in DOMAIN sessions, step_result \in Results,
     next_step_needed \in BOOLEAN :
    /\ Tick
    /\ Len(pending) < MaxPending
    /\ pending' = Append(pending, [execution_id |-> execution_id,
                                   step_result |-> step_result,
                                   next_step_needed |-> next_step_needed])
    /\ call' = [NoCall EXCEPT !.op = "lookup", !.execution_id = execution_id,
                              !.step_result = step_result,
                              !.next_step_needed = next_step_needed,
                              !.found = TRUE]
    /\ response' = NoResponse
    /\ UNCHANGED <<storage, sessions, nextId, hist, probe, objects>>

\* index.ts:547-550: the session is not in the map
AsyncLookupFails ==
  \E execution_id \in 1..(nextId - 1), step_result \in UnknownResults,
     next_step_needed \in BOOLEAN :
    /\ Tick
    /\ execution_id \notin DOMAIN sessions
    /\ call' = [NoCall EXCEPT !.op = "lookup", !.execution_id = execution_id,
                              !.step_result = step_result,
                              !.next_step_needed = next_step_needed]
    /\ response' = ErrorResponse("NotFound")
    /\ UNCHANGED <<storage, sessions, nextId, hist, probe, pending, objects>>

\* index.ts:552-648: storage.get has returned and the body runs on the
\* session object the call holds, whatever happened to it meanwhile;
\* this.sessions.delete of an id that is not in the map does nothing
AsyncResume ==
  \E i \in 1..Len(pending) :
    LET execution_id == pending[i].execution_id
        session == objects[execution_id]
        workflow == storage[session.workflow_id]
        out == runWorkflowStepBody(session, workflow, pending[i].step_result,
                                   pending[i].next_step_needed)
    IN /\ objects' = [objects EXCEPT ![execution_id] = out.session]
       /\ sessions' = IF execution_id \in DOMAIN sessions
                      THEN putSession(sessions, execution_id, out)
                      ELSE sessions
       /\ pending' = SubSeq(pending, 1, i - 1) \o SubSeq(pending, i + 1, Len(pending))
       /\ call' = [NoCall EXCEPT !.op = "run_workflow_step",
                                 !.execution_id = execution_id,
                                 !.step_result = pending[i].step_result,
                                 !.next_step_needed = pending[i].next_step_needed,
                                 !.found = TRUE, !.pre = session,
                                 !.post = out.session, !.workflow = workflow]
       /\ response' = out.response
       /\ UNCHANGED <<storage, nextId, calls, hist, probe>>

NextAsync ==
  \/ AsyncStartWorkflow
  \/ AsyncLookup
  \/ AsyncLookupFails
  \/ AsyncResume

SpecAsync == InitAsync /\ [][NextAsync]_vars

(***************************************************************************)
(* Properties.  The last call is described by call and response: pre and   *)
(* post are the session object before and after a run_workflow_step call   *)
(* that found its session.                                                 *)
(***************************************************************************)
Advanced == call.op = "run_workflow_step" /\ call.found
stepIds(workflow) == { workflow.steps[i].id : i \in 1..Len(workflow.steps) }
hasBranch(workflow) == \E i \in 1..Len(workflow.steps) : workflow.steps[i].action = "branch"
\* the last call carried a result while the session was past its first step,
\* and the step at the pre-advance index exists
ResultArrived ==
  /\ Advanced
  /\ call.step_result # Undefined
  /\ call.pre.current_step_index > 0
  /\ call.pre.current_step_index < Len(call.workflow.steps)
\* the last call was an advance from a branch step with next_step_needed = true
\* whose result text holds an occurrence of "step <n>"
BranchDecided ==
  /\ Advanced
  /\ call.next_step_needed
  /\ call.pre.current_step_index < Len(call.workflow.steps)
  /\ stepAt(call.workflow, call.pre.current_step_index).action = "branch"
  /\ Truthy(call.step_result)
  /\ hasGotoMatch(call.step_result.text)

\* C1: an advance that carries a result while current_step_index > 0 records
\* the result for the step at the pre-advance index (variables and
\* step_outputs of that step) and writes no other step's output or variable.
C1_ResultAttribution ==
  ResultArrived =>
    LET step == stepAt(call.workflow, call.pre.current_step_index)
        name == step.save_result_as
    IN /\ name # "" =>
            /\ name \in DOMAIN call.post.variables
            /\ call.post.variables[name] = call.step_result
            /\ step.id \in DOMAIN call.post.step_outputs
            /\ call.post.step_outputs[step.id] =
                 [variable_name |-> name, value |-> call.step_result]
       /\ \A k \in DOMAIN call.post.step_outputs :
            k # step.id =>
              /\ k \in DOMAIN call.pre.step_outputs
              /\ call.post.step_outputs[k] = call.pre.step_outputs[k]
       /\ \A v \in DOMAIN call.post.variables :
            v # name =>
              /\ v \in DOMAIN call.pre.variables
              /\ call.post.variables[v] = call.pre.variables[v]

C3_BranchJump ==
  (BranchDecided /\ gotoMatch(call.step_result.text) \in stepIds(call.workflow)) =>
    LET k == gotoMatch(call.step_result.text)
        e == call.execution_id
    IN /\ e \in DOMAIN sessions
       /\ sessions[e].current_step_index < Len(call.workflow.steps)
       /\ stepAt(call.workflow, sessions[e].current_step_index).id = k
       /\ response.kind = "instruction"
       /\ response.instruction.step_id = k
       /\ response.instruction.position = sessions[e].current_step_index + 1

\* a jump back to step 1 by a session that had jumped forward from step 1 to
\* step 3, so that step 2 was never instructed
C3_Witness ==
  /\ BranchDecided
  /\ call.workflow = WfBranch
  /\ call.pre.current_step_index = 2
  /\ call.execution_id \in DOMAIN sessions
  /\ sessions[call.execution_id].current_step_index = 0
  /\ response.kind = "instruction"
  /\ response.instruction.step_id = 1
  /\ ~hist[call.execution_id].edited
  /\ hist[call.execution_id].issued = {1, 3}
  /\ hist[call.execution_id].advances = 2

\* C4: when the result of a branch step names a step id that the definition
\* does not have, the advance fails, current_step_index keeps its value and
\* the session stays registered with status active.
C4_InvalidBranchTarget ==
  (BranchDecided /\ gotoMatch(call.step_result.text) \notin stepIds(call.workflow)) =>
    /\ response.kind = "error"
    /\ response.error = "InvalidBranchTarget"
    /\ call.execution_id \in DOMAIN sessions
    /\ sessions[call.execution_id].current_step_index = call.pre.current_step_index
    /\ sessions[call.execution_id].status = "active"

C4_Witness ==
  /\ BranchDecided
  /\ gotoMatch(call.step_result.text) \notin stepIds(call.workflow)
  /\ call.pre.current_step_index > 0
  /\ response.error = "InvalidBranchTarget"

\* C5: after an advance that failed with InvalidBranchTarget, the assignment
\* the call made from its result is in the session: the variable holds the
\* result, step_outputs holds the entry, previous_variables holds the
\* variables from before the call.
C5_PartialMutation ==
  (/\ Advanced
   /\ response.error = "InvalidBranchTarget"
   /\ call.step_result # Undefined
   /\ call.pre.current_step_index > 0
   /\ stepAt(call.workflow, previousStepIndex(call.pre)).save_result_as # "") =>
    LET previousStep == stepAt(call.workflow, previousStepIndex(call.pre))
        name == previousStep.save_result_as
        session == sessions[call.execution_id]
    IN /\ name \in DOMAIN session.variables
       /\ session.variables[name] = call.step_result
       /\ previousStep.id \in DOMAIN session.step_outputs
       /\ session.step_outputs[previousStep.id] =
            [variable_name |-> name, value |-> call.step_result]
       /\ session.previous_variables = call.pre.variables

C5_Witness ==
  /\ Advanced
  /\ response.error = "InvalidBranchTarget"
  /\ call.pre.current_step_index > 0
  /\ stepAt(call.workflow, previousStepIndex(call.pre)).save_result_as # ""
  /\ stepAt(call.workflow, previousStepIndex(call.pre)).save_result_as
       \notin DOMAIN call.pre.variables
  /\ sessions[call.execution_id].variables # call.pre.variables

\* the sessions of a definition without branch steps that was not updated
\* while they were registered
Sequential(e) == ~hasBranch(hist[e].workflow) /\ ~hist[e].edited

\* C6: a session of an N-step definition without branch steps completes on
\* its N-th advance when every advance passes next_step_needed = true, and
\* on the first advance that passes false when that comes earlier; until
\* then every advance moves current_step_index up by one and returns the
\* instruction of the next step in order.
C6_SequentialCompletion ==
  \A e \in DOMAIN hist :
    Sequential(e) =>
      LET h == hist[e]
          N == Len(h.workflow.steps)
      IN /\ ~h.failed
         /\ h.completed =>
              /\ e \notin DOMAIN sessions
              /\ h.completedAt = (IF h.stopped THEN h.advances ELSE N)
              /\ h.completedAt <= N
         /\ ~h.completed =>
              /\ e \in DOMAIN sessions
              /\ ~h.stopped
              /\ h.advances < N
              /\ sessions[e].current_step_index = h.advances
              /\ h.current = stepAt(h.workflow, h.advances).id

C6_Witness ==
  \E e \in DOMAIN hist :
    /\ Sequential(e)
    /\ hist[e].workflow = WfSeq3
    /\ hist[e].completed
    /\ ~hist[e].stopped
    /\ hist[e].completedAt = 3

\* C7: when such a session completes and every advance carried a result, the
\* final variables hold every input key and, for every step that declares
\* save_result_as, that name bound to the result sent for that step.
C7_FinalVariables ==
  \A e \in DOMAIN hist :
    (Sequential(e) /\ hist[e].completed /\ ~hist[e].unanswered) =>
      LET h == hist[e]
      IN /\ DOMAIN h.inputs \subseteq DOMAIN h.final
         /\ \A i \in 1..Len(h.workflow.steps) :
              LET step == h.workflow.steps[i]
              IN (step.id \in DOMAIN h.supplied /\ step.save_result_as # "") =>
                   /\ step.save_result_as \in DOMAIN h.final
                   /\ h.final[step.save_result_as] = h.supplied[step.id]

\* C8: when the advance that returns the instruction of a step carries the
\* result of the step instructed before it, that step declares
\* save_result_as and the instructed step lists it in dependencies, the
\* visible variables of the instruction bind that name to the result.
C8_DependencyVisibility ==
  (/\ ResultArrived
   /\ response.kind = "instruction"
   /\ stepAt(call.workflow, call.pre.current_step_index).save_result_as # ""
   /\ stepAt(call.workflow, call.pre.current_step_index).id
        \in stepAt(call.workflow, call.post.current_step_index).dependencies) =>
    LET name == stepAt(call.workflow, call.pre.current_step_index).save_result_as
    IN /\ name \in DOMAIN response.instruction.visible
       /\ response.instruction.visible[name] = call.step_result

C10_RegistryInv ==
  /\ DOMAIN hist = 1..(nextId - 1)
  /\ DOMAIN sessions = { e \in DOMAIN hist : ~hist[e].completed }
  /\ \A e \in DOMAIN sessions : sessions[e].status = "active"
  /\ Advanced =>
       (call.post.status = "completed" <=> call.execution_id \notin DOMAIN sessions)

C10_RegistryLifecycle ==
  /\ []C10_RegistryInv
  /\ [][\A e \in 1..(nextId - 1) :
          e \notin DOMAIN sessions => e \notin DOMAIN sessions']_vars

\* one session completed by running past its last step and gone, another
\* still registered
C10_Witness ==
  \E e1, e2 \in DOMAIN hist :
    /\ e1 \in DOMAIN sessions
    /\ e2 \notin DOMAIN sessions
    /\ hist[e2].completed
    /\ ~hist[e2].stopped

C12_KeysNeverShrink ==
  /\ Advanced => DOMAIN call.pre.variables \subseteq DOMAIN call.post.variables
  /\ \A e \in DOMAIN hist :
       /\ e \in DOMAIN sessions =>
            DOMAIN hist[e].inputs \subseteq DOMAIN sessions[e].variables
       /\ hist[e].completed => DOMAIN hist[e].inputs \subseteq DOMAIN hist[e].final

\* a session that completed after results added keys to its variables and
\* overwrote one of them
C12_Witness ==
  /\ Advanced
  /\ hist[call.execution_id].completed
  /\ DOMAIN hist[call.execution_id].inputs # {}
  /\ DOMAIN hist[call.execution_id].final # DOMAIN hist[call.execution_id].inputs
  /\ \E k \in DOMAIN call.pre.variables \cap DOMAIN call.pre.previous_variables :
       call.pre.variables[k] # call.pre.previous_variables[k]

\* C13: a start_workflow or run_workflow_step call leaves every registered
\* session other than the one it names registered and unchanged in
\* current_step_index, variables, previous_variables, step_outputs and
\* status, also when the sessions run the same definition.
C13_SessionIsolation ==
  [][\A e \in DOMAIN sessions :
       (call'.op \in {"start_workflow", "run_workflow_step"}
          /\ e # call'.execution_id) =>
         /\ e \in DOMAIN sessions'
         /\ sessions'[e].current_step_index = sessions[e].current_step_index
         /\ sessions'[e].variables = sessions[e].variables
         /\ sessions'[e].previous_variables = sessions[e].previous_variables
         /\ sessions'[e].step_outputs = sessions[e].step_outputs
         /\ sessions'[e].status = sessions[e].status]_vars

\* two sessions of one workflow are registered; the last call stored a
\* result in the variables of one, the other is still at its first step
C13_Witness ==
  /\ Advanced
  /\ call.execution_id \in DOMAIN sessions
  /\ call.post.variables # call.pre.variables
  /\ \E e \in DOMAIN sessions :
       /\ e # call.execution_id
       /\ sessions[e].workflow_id = call.post.workflow_id
       /\ sessions[e].current_step_index = 0
       /\ sessions[e].variables = hist[e].inputs

\* C14: a start_workflow call that succeeds registers exactly one session,
\* under an execution id that was never issued, with variables equal to the
\* inputs after validation (the caller's inputs and the declared defaults),
\* step_outputs and previous_variables empty, current_step_index 0,
\* total_steps the number of steps of the definition and status active; it
\* leaves the other sessions as they were and returns the instruction of
\* the first step.
C14_BeginRegisters ==
  [][(call'.op = "start_workflow" /\ response'.kind # "error") =>
       LET e == call'.execution_id
           workflow == storage[call'.workflow_id]
       IN /\ e \notin DOMAIN hist
          /\ e \notin DOMAIN sessions
          /\ DOMAIN sessions' = DOMAIN sessions \cup {e}
          /\ \A o \in DOMAIN sessions : sessions'[o] = sessions[o]
          /\ sessions'[e].variables = inputsWithDefaults(workflow, call'.inputs)
          /\ sessions'[e].step_outputs = EmptyMap
          /\ sessions'[e].previous_variables = EmptyMap
          /\ sessions'[e].current_step_index = 0
          /\ sessions'[e].total_steps = Len(workflow.steps)
          /\ sessions'[e].status = "active"
          /\ response'.kind = "instruction"
          /\ response'.instruction.step_id = workflow.steps[1].id
          /\ response'.instruction.position = 1
          /\ response'.instruction.total = Len(workflow.steps)]_vars

\* a second session was started, on the definition with a defaulted input,
\* by a caller that sent x only
C14_Witness ==
  /\ call.op = "start_workflow"
  /\ call.found
  /\ call.workflow = WfOne
  /\ DOMAIN call.inputs = {"x"}
  /\ DOMAIN sessions[call.execution_id].variables = {"x", "y"}
  /\ \E o \in DOMAIN sessions : o # call.execution_id

\* C15: a start_workflow call that names a workflow without a file or a
\* soft-deleted workflow, or whose inputs lack a required input or hold an
\* input of another type than declared, returns an error; and a
\* start_workflow call that returns an error creates no session and changes
\* none.
C15_FailedBeginNoEffect ==
  [][call'.op = "start_workflow" =>
       LET id == call'.workflow_id
           inputs == call'.inputs
           rejected ==
             IF id \notin DOMAIN storage THEN TRUE
             ELSE \/ storage[id].is_deleted
                  \/ \E key \in DOMAIN storage[id].inputs :
                       \/ storage[id].inputs[key].required /\ key \notin DOMAIN inputs
                       \/ /\ key \in DOMAIN inputs
                          /\ inputs[key].type # storage[id].inputs[key].type
       IN /\ rejected => response'.kind = "error"
          /\ response'.kind = "error" => (sessions' = sessions /\ nextId' = nextId)]_vars

\* a start_workflow call with a string for the number x failed while a
\* session was registered
C15_Witness ==
  /\ call.op = "start_workflow"
  /\ response.kind = "error"
  /\ response.error = "ValidationFailed"
  /\ "x" \in DOMAIN call.inputs
  /\ call.inputs["x"].type = "string"
  /\ DOMAIN sessions # {}

\* C16: a run_workflow_step call whose execution id is not in the registry,
\* because it was never issued or because its session completed, fails with
\* NotFound and leaves the registry and every session as they were,
\* whatever step_result and next_step_needed it carries.
C16_UnknownExecution ==
  [][(/\ call'.op = "run_workflow_step"
      /\ \/ call'.execution_id \notin DOMAIN hist
         \/ hist[call'.execution_id].completed) =>
       /\ call'.execution_id \notin DOMAIN sessions
       /\ response'.kind = "error"
       /\ response'.error = "NotFound"
       /\ sessions' = sessions
       /\ storage' = storage
       /\ nextId' = nextId]_vars

\* an advance that carries a result and next_step_needed = false named a
\* completed session while another session was registered
C16_Witness ==
  /\ call.op = "run_workflow_step"
  /\ ~call.found
  /\ call.execution_id \in DOMAIN hist
  /\ hist[call.execution_id].completed
  /\ call.step_result # Undefined
  /\ ~call.next_step_needed
  /\ response.error = "NotFound"
  /\ DOMAIN sessions # {}

\* C17: for a step with show_all_variables = true the visible variables are
\* all the variables of the session, whatever its dependencies and whether
\* or not the definition has strict_dependencies.
C17_ShowAllVariables ==
  (probe.evaluated /\ probe.step.show_all_variables) =>
    /\ probe.visible = probe.session.variables
    /\ probe.instruction.visible = probe.session.variables

\* a strict definition, a dependency without a recorded output, and three
\* variables, all visible
C17_Witness ==
  /\ probe.evaluated
  /\ probe.step.show_all_variables
  /\ probe.workflow.strict_dependencies
  /\ probe.step.dependencies = {1}
  /\ DOMAIN probe.session.step_outputs = {2}
  /\ DOMAIN probe.session.variables = {"x", "a", "b"}
  /\ DOMAIN probe.visible = {"x", "a", "b"}

\* C18: for a step without show_all_variables and without dependencies the
\* visible variables are the empty mapping when the definition has
\* strict_dependencies = true, and all the variables of the session
\* otherwise.
C18_NoDependencies ==
  (probe.evaluated /\ ~probe.step.show_all_variables /\ probe.step.dependencies = {}) =>
    probe.visible = (IF probe.workflow.strict_dependencies
                     THEN EmptyMap ELSE probe.session.variables)

\* a strict definition and a session with an input and two recorded
\* outputs, none of them visible
C18_Witness ==
  /\ probe.evaluated
  /\ ~probe.step.show_all_variables
  /\ probe.step.dependencies = {}
  /\ probe.workflow.strict_dependencies
  /\ DOMAIN probe.session.variables = {"x", "a", "b"}
  /\ DOMAIN probe.session.step_outputs = {1, 2}
  /\ probe.visible = EmptyMap

C20_DiffPartition ==
  \A e \in DOMAIN sessions :
    DOMAIN sessions[e].previous_variables # {} =>
      LET changes == getChangedVariables(sessions[e])
      IN /\ changes.added \cap changes.modified = {}
         /\ changes.added \cap changes.unchanged = {}
         /\ changes.modified \cap changes.unchanged = {}
         /\ changes.added \cup changes.modified \cup changes.unchanged
              = DOMAIN sessions[e].variables

\* a registered session in which the last result overwrote a variable with
\* another value and left another variable as it was
C20_Witness ==
  /\ Advanced
  /\ call.execution_id \in DOMAIN sessions
  /\ call.post.variables # call.pre.variables
  /\ DOMAIN sessions[call.execution_id].previous_variables # {}
  /\ getChangedVariables(sessions[call.execution_id]).modified # {}
  /\ getChangedVariables(sessions[call.execution_id]).unchanged # {}

C22_SnapshotEveryResult ==
  ResultArrived => call.post.previous_variables = call.pre.variables

\* C23: with R = total_steps - current_step_index - 1 steps after the
\* current one, an instruction previews min(3, R) upcoming steps, in
\* definition order from the immediate successor, and shows the remainder
\* R - 3 exactly when R > 3.
C23_PreviewThree ==
  probe.op = "preview" =>
    LET index == probe.session.current_step_index
        R == probe.session.total_steps - index - 1
        upcoming == probe.instruction.upcoming
    IN /\ Len(upcoming) = Min(3, R)
       /\ \A j \in 1..Len(upcoming) :
            /\ upcoming[j].number = index + j + 1
            /\ upcoming[j].action = stepAt(probe.workflow, index + j).action
       /\ probe.instruction.more = (IF R > 3 THEN R - 3 ELSE 0)

\* the tokens of a value: of a string, of the elements of an array, of the
\* values of an object
RECURSIVE tokensOf(_)
tokensOf(value) ==
  IF value.type = "array"
  THEN UNION { tokensOf(value.items[i]) : i \in 1..Len(value.items) }
  ELSE IF value.type = "object"
  THEN UNION { tokensOf(value.entries[i].value) : i \in 1..Len(value.entries) }
  ELSE { value.text[i].w : i \in { j \in 1..Len(value.text) : IsVar(value.text[j]) } }

\* C24 as stated: for every value and every variables mapping, resolving the
\* resolved value again gives the resolved value.
C24_Idempotent ==
  probe.op = "resolve" => probe.resolvedAgain = probe.resolved

\* C24 amended: resolving the resolved value again gives the resolved value
\* when the resolved value holds no token that names a key of the variables
\* mapping.
C24_IdempotentOnceResolved ==
  (probe.op = "resolve"
     /\ tokensOf(probe.resolved) \cap DOMAIN probe.session.variables = {}) =>
    probe.resolvedAgain = probe.resolved

\* a string with a token of no variable, which is kept, and two tokens of a,
\* which are replaced by a number
C24_Witness ==
  /\ probe.op = "resolve"
  /\ DOMAIN probe.session.variables = {"a"}
  /\ probe.session.variables["a"].type = "number"
  /\ probe.template.type = "string"
  /\ tokensOf(probe.template) = {"a", "c"}
  /\ tokensOf(probe.resolved) = {"c"}
  /\ probe.resolvedAgain = probe.resolved

\* C25: on a definition the validator accepted and that was not updated
\* since the session started, an advance from a branch step whose result
\* names a goto_step declared in the conditions of that step does not fail
\* with InvalidBranchTarget: it returns the instruction of the named step.
C25_DeclaredTargetResolves ==
  (/\ BranchDecided
   /\ validateWorkflow(call.workflow)
   /\ ~hist[call.execution_id].edited
   /\ gotoMatch(call.step_result.text)
        \in stepAt(call.workflow, call.pre.current_step_index).conditions) =>
    /\ response.error # "InvalidBranchTarget"
    /\ response.kind = "instruction"
    /\ response.instruction.step_id = gotoMatch(call.step_result.text)

\* the last step of a three-step definition branched to itself
C25_Witness ==
  /\ BranchDecided
  /\ call.workflow = WfQuiet
  /\ ~hist[call.execution_id].edited
  /\ call.pre.current_step_index = 2
  /\ gotoMatch(call.step_result.text) = 3
  /\ response.kind = "instruction"
  /\ response.instruction.step_id = 3

\* C26: every definition the validator accepted has the id i + 1 at array
\* position i, so that the step number an instruction shows (the position
\* plus one) is the id of the step instructed.
C26_IdIsPosition ==
  /\ \A id \in DOMAIN storage :
       validateWorkflow(storage[id]) =>
         \A i \in 1..Len(storage[id].steps) : storage[id].steps[i].id = i
  /\ response.kind = "instruction" =>
       response.instruction.position = response.instruction.step_id

\* C27: a variable present in both snapshots is modified exactly when its
\* canonical serialization differs: arrays with the same elements in
\* another order are modified, objects with the same keys and values
\* written in another key order are unchanged.
C27_CanonicalDiff ==
  probe.op = "diff" =>
    LET canonical(value) ==
          IF value.type = "object"
          THEN [type |-> "object",
                members |-> { value.entries[i] : i \in 1..Len(value.entries) }]
          ELSE [type |-> value.type, members |-> JSONstringify(value)]
        before == probe.session.previous_variables["a"]
        after == probe.session.variables["a"]
    IN /\ "a" \in probe.changes.modified <=> canonical(after) # canonical(before)
       /\ "a" \in probe.changes.unchanged <=> canonical(after) = canonical(before)

C29_ResultBeforeTermination ==
  (Advanced /\ call.step_result # Undefined /\ response.kind = "completed") =>
    /\ response.final_variables = call.post.variables
    /\ call.post.status = "completed"
    /\ (/\ call.pre.current_step_index > 0
        /\ stepAt(call.workflow, previousStepIndex(call.pre)).save_result_as # "") =>
         LET name == stepAt(call.workflow, previousStepIndex(call.pre)).save_result_as
         IN /\ name \in DOMAIN response.final_variables
            /\ response.final_variables[name] = call.step_result
            /\ call.post.previous_variables = call.pre.variables

\* an advance with next_step_needed = false stored its result under a new
\* name and completed the session
C29_Witness ==
  /\ Advanced
  /\ ~call.next_step_needed
  /\ call.step_result # Undefined
  /\ response.kind = "completed"
  /\ call.pre.current_step_index < Len(call.workflow.steps) - 1
  /\ DOMAIN response.final_variables # DOMAIN call.pre.variables

\* C30: an advance with next_step_needed = false on a branch step completes
\* the session and removes it from the registry, without an
\* InvalidBranchTarget error, also when the result names a step id the
\* definition does not have.
C30_TerminationBeforeBranch ==
  (/\ Advanced
   /\ ~call.next_step_needed
   /\ call.pre.current_step_index < Len(call.workflow.steps)
   /\ stepAt(call.workflow, call.pre.current_step_index).action = "branch") =>
    /\ response.kind = "completed"
    /\ response.error # "InvalidBranchTarget"
    /\ call.post.status = "completed"
    /\ call.post.current_step_index = call.pre.current_step_index
    /\ call.execution_id \notin DOMAIN sessions

\* the result of the stopped branch step names step 3 of a two-step
\* definition
C30_Witness ==
  /\ Advanced
  /\ ~call.next_step_needed
  /\ call.pre.current_step_index < Len(call.workflow.steps)
  /\ stepAt(call.workflow, call.pre.current_step_index).action = "branch"
  /\ Truthy(call.step_result)
  /\ hasGotoMatch(call.step_result.text)
  /\ gotoMatch(call.step_result.text) \notin stepIds(call.workflow)
  /\ response.kind = "completed"

\* the last call was an advance from a branch step with next_step_needed =
\* true from whose result no target is extracted: the result is absent, is
\* the empty string, or holds no occurrence of "step <n>"
BranchUndecided ==
  /\ Advanced
  /\ call.next_step_needed
  /\ call.pre.current_step_index < Len(call.workflow.steps)
  /\ stepAt(call.workflow, call.pre.current_step_index).action = "branch"
  /\ \/ call.step_result = Undefined
     \/ call.step_result = Str(<<>>)
     \/ ~hasGotoMatch(call.step_result.text)

\* C31: an advance with next_step_needed = true from a branch step whose
\* result yields no target moves current_step_index forward by exactly 1;
\* the session completes and leaves the registry if that passes the last
\* step, and otherwise the instruction of the following step is returned.
C31_NoTargetSequential ==
  BranchUndecided =>
    /\ call.post.current_step_index = call.pre.current_step_index + 1
    /\ IF call.post.current_step_index >= Len(call.workflow.steps)
       THEN /\ response.kind = "completed"
            /\ call.post.status = "completed"
            /\ call.execution_id \notin DOMAIN sessions
       ELSE /\ response.kind = "instruction"
            /\ response.instruction.step_id =
                 stepAt(call.workflow, call.post.current_step_index).id
            /\ call.execution_id \in DOMAIN sessions
            /\ sessions[call.execution_id] = call.post

\* one session took the sequential successor of a branch step with an empty
\* result, and later ran past a last branch step with a result that names
\* no step
C31_Witness ==
  /\ BranchUndecided
  /\ call.step_result = Str(<<Word("done")>>)
  /\ response.kind = "completed"
  /\ call.post.current_step_index = Len(call.workflow.steps)
  /\ ~hist[call.execution_id].edited
  /\ hist[call.execution_id].advances = 3
  /\ stepAt(call.workflow, 0).action = "branch"
  /\ stepAt(call.workflow, 0).id \in DOMAIN hist[call.execution_id].supplied
  /\ hist[call.execution_id].supplied[stepAt(call.workflow, 0).id] = Str(<<>>)

\* the numbers of all occurrences of "step <n>" in a text, in any case
namedSteps(text) ==
  { text[i].n : i \in { j \in 1..Len(text) :
                          text[j].isStep /\ toLowerCase(text[j].w) = "step" } }

\* the number of the leftmost occurrence
firstNamedStep(text) ==
  LET first == CHOOSE i \in 1..Len(text) :
                 /\ text[i].isStep /\ toLowerCase(text[i].w) = "step"
                 /\ \A j \in 1..(i - 1) :
                      ~(text[j].isStep /\ toLowerCase(text[j].w) = "step")
  IN text[first].n

C36_WitnessInvalid ==
  /\ BranchDecided
  /\ firstNamedStep(call.step_result.text) \notin stepIds(call.workflow)
  /\ namedSteps(call.step_result.text) \cap stepIds(call.workflow) # {}
  /\ response.error = "InvalidBranchTarget"

\* C32: a session that was removed from the registry is never changed and
\* never yields another result, also for a call that looked the session up
\* before it was removed and resumes afterwards: that call leaves the
\* variables, step_outputs and current_step_index of the session alone and
\* returns neither a completion summary nor an instruction.
C32_RemovedSessionFrozen ==
  (/\ call.op = "run_workflow_step"
   /\ call.found
   /\ call.pre.status = "completed") =>
    /\ call.post.variables = call.pre.variables
    /\ call.post.step_outputs = call.pre.step_outputs
    /\ call.post.current_step_index = call.pre.current_step_index
    /\ response.kind = "error"

C34_OutputsOnlyForIssued ==
  /\ \A e \in DOMAIN sessions : DOMAIN sessions[e].step_outputs \subseteq hist[e].issued
  /\ Advanced => DOMAIN call.post.step_outputs \subseteq hist[call.execution_id].issued

\* C35: an advance from a branch step moves current_step_index only to the
\* position of a step id that the conditions of that branch step declare as
\* goto_step, or to the sequential successor; a result that names another
\* existing step id does not move the cursor there.
C35_OnlyDeclaredTargets ==
  (/\ Advanced
   /\ call.next_step_needed
   /\ call.pre.current_step_index < Len(call.workflow.steps)
   /\ stepAt(call.workflow, call.pre.current_step_index).action = "branch") =>
    \/ /\ call.post.current_step_index = call.pre.current_step_index
       /\ response.kind = "error"
    \/ call.post.current_step_index = call.pre.current_step_index + 1
    \/ \E goto_step \in stepAt(call.workflow, call.pre.current_step_index).conditions :
         call.post.current_step_index = findIndex(call.workflow.steps, goto_step)

\* C37: two sessions of one definition at the same current_step_index whose
\* visible variables for the current step are equal get the same
\* instruction, also when they differ in the value of a variable the step
\* does not see (a step without dependencies under strict_dependencies
\* sees none).
C37_HiddenNonInterference ==
  (/\ probe.op = "compare"
   /\ getVisibleVariables(probe.workflow, probe.step, probe.other) = probe.visible) =>
    probe.otherInstruction = probe.instruction

\* C38: whenever an advance adds a variable or changes the value of one, and
\* the variable is visible to the step whose instruction the call returns,
\* that instruction annotates it, + for added and ~ for modified; only the
\* instruction returned by start_workflow carries no diff.
C38_ChangesAnnotated ==
  (Advanced /\ response.kind = "instruction") =>
    \A name \in DOMAIN call.post.variables \cap DOMAIN response.instruction.visible :
      /\ name \notin DOMAIN call.pre.variables => name \in response.instruction.added
      /\ (/\ name \in DOMAIN call.pre.variables
          /\ call.pre.variables[name] # call.post.variables[name]) =>
           name \in response.instruction.modified

\* the names in which variables differs from previous_variables
differingNames(session) ==
  { name \in DOMAIN session.variables \cup DOMAIN session.previous_variables :
      \/ name \notin DOMAIN session.variables
      \/ name \notin DOMAIN session.previous_variables
      \/ session.variables[name] # session.previous_variables[name] }

====
